---- MODULE Spec2Model ----
(***************************************************************************)
(* Model of nni.tuner.Tuner (src/sdk/pynni/nni/tuner.py): the abstract     *)
(* tuner contract, its default batch-generation adapter, the customized-   *)
(* trial flag, the no-op lifecycle hooks and the default checkpoint hooks. *)
(*                                                                         *)
(* Three kinds of tuner object are modelled:                               *)
(*   "base"   the Tuner class itself, nothing overridden;                  *)
(*   "single" a subclass overriding generate_parameters,                   *)
(*            receive_trial_result and update_search_space (an exhaustive  *)
(*            enumerator of the search space), keeping the default         *)
(*            generate_multiple_parameters;                                *)
(*   "multi"  a subclass overriding generate_multiple_parameters (and      *)
(*            receive_trial_result, update_search_space) but not           *)
(*            generate_parameters.                                         *)
(***************************************************************************)
EXTENDS Integers, Sequences, FiniteSets, TLC

\* ------------------------------------------------------------------ bounds
MaxId == 3          \* parameter ids are 0 .. MaxId-1
MaxLen == 3         \* longest parameter_id_list of a batch call
MaxSpace == 2       \* largest search space: x \in 1 .. MaxSpace
MaxModel == 2       \* most trial results the model incorporates

ParameterIds == 0 .. (MaxId - 1)

\* Python's None as a parameter set, and the sets {x: v} of the search space.
NoParams == [x |-> 0]
Params(v) == [x |-> v]

Kinds == {"base", "single", "multi"}

\* The values of the attribute _accept_customized: absent, True, False.
Unset == "unset"

\* ------------------------------------------------------------------- state
VARIABLES
    kind,                \* which class the tuner object is an instance of
    _accept_customized,  \* the attribute self._accept_customized
    search_space,        \* subclass state: size of the adopted space (0: none)
    cursor,              \* subclass state: parameter sets enumerated so far
    exhausted,           \* subclass state: NoMoreTrials signalled, not reopened
    model,               \* subclass state: how many results the model incorporates
    checkpoint,          \* what the checkpoint location holds
    accept_arg,          \* history: argument of the last accept_customized_trials call
    generated,           \* history: a generation call was made on this object
    op,                  \* last operation called
    ids,                 \* its parameter id(s)
    flag,                \* its boolean argument (customized / success / accept)
    outcome,             \* "return" or the name of the exception raised
    result,              \* the parameter sets it returned
    trace,               \* the generate_parameters calls it made
    log,                 \* what it logged
    pre                  \* the session a restart replaced

vars == <<kind, _accept_customized, search_space, cursor, exhausted, model,
          checkpoint, accept_arg, generated, op, ids, flag, outcome, result,
          trace, log, pre>>

\* The TunerSession: the tuner's mutable state.
Session == [accept |-> _accept_customized, space |-> search_space,
            cursor |-> cursor, exhausted |-> exhausted, model |-> model]

\* The part of it generation reads and writes.
Gen == [space |-> search_space, cursor |-> cursor, exhausted |-> exhausted]

\* The attribute a freshly constructed Tuner has: the class defines no
\* __init__, so _accept_customized does not exist until
\* accept_customized_trials assigns it.
InitAcceptTrue == "True"
InitAccept == Unset

FreshSession == [accept |-> InitAccept, space |-> 0, cursor |-> 0,
                 exhausted |-> FALSE, model |-> 0]
NoSession == [accept |-> "none", space |-> 0, cursor |-> 0,
              exhausted |-> FALSE, model |-> 0]

\* ------------------------------------------------ single-set generation
\* One call of generate_parameters: [outcome, res, g] with g the generation
\* state after the call.
Raise(e, g) == [outcome |-> e, res |-> NoParams, g |-> g]

\* Tuner.generate_parameters as the class defines it.
BaseGenerateParametersPass(g, parameter_id) ==
    [outcome |-> "return", res |-> NoParams, g |-> g]
BaseGenerateParameters(g, parameter_id) ==
    Raise("NotImplementedError", g)

\* The override of an enumerating subclass: the next value of the space, or
\* NoMoreTrialError once the space is enumerated; fault: an internal fault
\* hits this call.
SubGenerateParameters(g, parameter_id, fault) ==
    IF fault THEN Raise("InternalFault", g)
    ELSE IF g.exhausted \/ g.cursor >= g.space
         THEN Raise("NoMoreTrialError", [g EXCEPT !.exhausted = TRUE])
         ELSE [outcome |-> "return", res |-> Params(g.cursor + 1),
               g |-> [g EXCEPT !.cursor = g.cursor + 1]]

\* self.generate_parameters(parameter_id): dispatch on the object's class.
GenerateParameters(k, g, parameter_id, fault) ==
    IF k = "single" THEN SubGenerateParameters(g, parameter_id, fault)
    ELSE BaseGenerateParameters(g, parameter_id)

\* ------------------------------------------------------ batch generation
\* Which exceptions of generate_parameters the default batch adapter
\* catches: `except nni.NoMoreTrialError`.
SwallowedAny(e) == e # "return"
Swallowed(e) == e = "NoMoreTrialError"

\* What the adapter returns from the except clause: `return result`.
OnNoMoreTrialsPad(collected) == Append(collected, NoParams)
OnNoMoreTrials(collected) == collected

\* The for loop of Tuner.generate_multiple_parameters from position i on;
\* acc = [g, result, trace] is what the iterations before i left.
\* faultAt: the position whose generate_parameters call hits an internal
\* fault (0: none).
RECURSIVE BatchLoopContinue(_, _, _, _, _)
BatchLoopContinue(k, parameter_id_list, faultAt, i, acc) ==
    IF i > Len(parameter_id_list)
    THEN [outcome |-> "return", result |-> acc.result, g |-> acc.g,
          trace |-> acc.trace]
    ELSE LET r == GenerateParameters(k, acc.g, parameter_id_list[i], faultAt = i)
             tr == Append(acc.trace, [id |-> parameter_id_list[i],
                                      outcome |-> r.outcome, res |-> r.res])
         IN  IF r.outcome = "return"
             THEN BatchLoopContinue(k, parameter_id_list, faultAt, i + 1,
                                    [g |-> r.g,
                                     result |-> Append(acc.result, r.res),
                                     trace |-> tr])
             ELSE IF Swallowed(r.outcome)
             THEN BatchLoopContinue(k, parameter_id_list, faultAt, i + 1,
                                    [g |-> r.g, result |-> acc.result,
                                     trace |-> tr])
             ELSE [outcome |-> r.outcome, result |-> <<>>, g |-> r.g,
                   trace |-> tr]
RECURSIVE BatchLoop(_, _, _, _, _)
BatchLoop(k, parameter_id_list, faultAt, i, acc) ==
    IF i > Len(parameter_id_list)
    THEN [outcome |-> "return", result |-> acc.result, g |-> acc.g,
          trace |-> acc.trace]
    ELSE LET r == GenerateParameters(k, acc.g, parameter_id_list[i], faultAt = i)
             tr == Append(acc.trace, [id |-> parameter_id_list[i],
                                      outcome |-> r.outcome, res |-> r.res])
         IN  IF r.outcome = "return"
             THEN BatchLoop(k, parameter_id_list, faultAt, i + 1,
                            [g |-> r.g, result |-> Append(acc.result, r.res),
                             trace |-> tr])
             ELSE IF Swallowed(r.outcome)
             THEN [outcome |-> "return", result |-> OnNoMoreTrials(acc.result),
                   g |-> r.g, trace |-> tr]
             ELSE [outcome |-> r.outcome, result |-> <<>>, g |-> r.g,
                   trace |-> tr]

\* Tuner.generate_multiple_parameters: result = [] and the loop.
DefaultGenerateMultipleParametersSkipsFirst(k, g, parameter_id_list, faultAt) ==
    BatchLoop(k, parameter_id_list, faultAt, 2,
              [g |-> g, result |-> <<>>, trace |-> <<>>])
DefaultGenerateMultipleParametersKeeps(k, g, parameter_id_list, faultAt) ==
    BatchLoop(k, parameter_id_list, faultAt, 1,
              [g |-> g, result |-> result, trace |-> <<>>])
DefaultGenerateMultipleParameters(k, g, parameter_id_list, faultAt) ==
    BatchLoop(k, parameter_id_list, faultAt, 1,
              [g |-> g, result |-> <<>>, trace |-> <<>>])

Min(a, b) == IF a < b THEN a ELSE b

\* The override of a subclass that generates batches itself: the next values
\* of the space, as many as the list asks for and the space still has; it
\* never calls generate_parameters.
SubGenerateMultipleParameters(g, parameter_id_list, faultAt) ==
    IF faultAt # 0
    THEN [outcome |-> "InternalFault", result |-> <<>>, g |-> g, trace |-> <<>>]
    ELSE LET left == IF g.exhausted \/ g.cursor >= g.space THEN 0
                     ELSE g.space - g.cursor
             n == Min(Len(parameter_id_list), left)
         IN  [outcome |-> "return",
              result |-> [j \in 1 .. n |-> Params(g.cursor + j)],
              g |-> [g EXCEPT !.cursor = g.cursor + n,
                              !.exhausted = g.exhausted \/ n < Len(parameter_id_list)],
              trace |-> <<>>]

\* self.generate_multiple_parameters(parameter_id_list): dispatch on class.
GenerateMultipleParameters(k, g, parameter_id_list, faultAt) ==
    IF k = "multi"
    THEN SubGenerateMultipleParameters(g, parameter_id_list, faultAt)
    ELSE DefaultGenerateMultipleParameters(k, g, parameter_id_list, faultAt)

\* ------------------------------------------------------- result ingestion
\* Whether the caller of receive_trial_result hands a result to the tuner:
\* results of customized trials only when _accept_customized is True.
Delivered(accept, customized) == ~customized \/ accept = "True"

\* Tuner.receive_trial_result as the class defines it, and the override of
\* a subclass: the result joins the model.
BaseReceiveTrialResult(s, parameter_id) ==
    [outcome |-> "NotImplementedError", s |-> s]
SubReceiveTrialResult(s, parameter_id) ==
    [outcome |-> "return",
     s |-> [s EXCEPT !.model = s.model + 1]]

\* ------------------------------------------------------------ search space
BaseUpdateSearchSpace(s, space) == [outcome |-> "NotImplementedError", s |-> s]
\* The override of a subclass: an empty space is rejected, any other
\* replaces the old one and reopens the search.
SubUpdateSearchSpace(s, space) ==
    IF space = 0 THEN [outcome |-> "ValidationError", s |-> s]
    ELSE [outcome |-> "return",
          s |-> [s EXCEPT !.space = space, !.cursor = 0, !.exhausted = FALSE]]

\* --------------------------------------------------------- flag and hooks
\* accept_customized_trials(accept=True): arg is "omitted", "True" or "False".
AcceptArgs == {"omitted", "True", "False"}
AcceptValue(arg) == IF arg = "omitted" THEN "True" ELSE arg
AcceptCustomizedAlways(s, arg) == [s EXCEPT !.accept = "True"]
AcceptCustomizedOnce(s, arg) ==
    IF s.accept = Unset THEN [s EXCEPT !.accept = AcceptValue(arg)] ELSE s
AcceptCustomized(s, arg) == [s EXCEPT !.accept = AcceptValue(arg)]

\* trial_end: `pass`.
TrialEndForgets(s, parameter_id, success) ==
    IF success THEN s ELSE [s EXCEPT !.cursor = 0, !.exhausted = FALSE]
TrialEndEffect(s, parameter_id, success) == s

\* import_data: `pass`.
ImportDataReopens(s, data) ==
    IF data = <<>> THEN s ELSE [s EXCEPT !.cursor = 0, !.exhausted = FALSE]
ImportDataEffect(s, data) == s

\* ------------------------------------------------------------- checkpoint
\* What self.get_checkpoint_path() can do: return a directory, return None,
\* or raise.
CheckpointPathOutcomes == {"dir", "None", "raise"}

\* load_checkpoint and save_checkpoint call the accessor outside any try:
\* what it raises leaves the method; otherwise they log and return.
CheckpointOutcomeSwallow(path) == "return"
CheckpointOutcome(path) ==
    IF path = "raise" THEN "CheckpointPathError" ELSE "return"

LoadMessage == "Load checkpoint ignored by tuner"
SaveMessage == "Save checkpoint ignored by tuner"
CheckpointLog(path, message) == IF path = "raise" THEN "" ELSE message

\* The session load_checkpoint leaves, given what the location holds: the
\* checkpoint is ignored.
LoadCheckpointRestores(s, stored) == stored
LoadCheckpointEffect(s, stored) == s

\* What the location holds after save_checkpoint: nothing is written.
SaveCheckpointWrites(s, stored) == s
SaveCheckpointData(s, stored) == stored

\* ---------------------------------------------------------------- actions
\* The parameter_id_lists of batch calls: runs of consecutive ids, ascending
\* or descending (the caller numbers its trials consecutively).
IdLists ==
    {l \in UNION {[1 .. n -> ParameterIds] : n \in 0 .. MaxLen} :
        \/ \A i \in 2 .. Len(l) : l[i] = l[i - 1] + 1
        \/ \A i \in 2 .. Len(l) : l[i] = l[i - 1] - 1}

\* Historical records of import_data, by their 'parameter' values.
DataLists == {<<>>, <<1>>, <<1, 2>>}

SetSession(s) ==
    /\ _accept_customized' = s.accept
    /\ search_space' = s.space
    /\ cursor' = s.cursor
    /\ exhausted' = s.exhausted
    /\ model' = s.model

SetGen(g) ==
    /\ search_space' = g.space
    /\ cursor' = g.cursor
    /\ exhausted' = g.exhausted

\* What the call just made looked like from outside.
Called(o, i, f, out, res, tr, lg) ==
    /\ op' = o
    /\ ids' = i
    /\ flag' = f
    /\ outcome' = out
    /\ result' = res
    /\ trace' = tr
    /\ log' = lg
    /\ pre' = NoSession

Init ==
    /\ kind \in Kinds
    /\ _accept_customized = FreshSession.accept
    /\ search_space = FreshSession.space
    /\ cursor = FreshSession.cursor
    /\ exhausted = FreshSession.exhausted
    /\ model = FreshSession.model
    /\ checkpoint = NoSession
    /\ accept_arg = "never"
    /\ generated = FALSE
    /\ op = "init"
    /\ ids = <<>>
    /\ flag = FALSE
    /\ outcome = "return"
    /\ result = <<>>
    /\ trace = <<>>
    /\ log = ""
    /\ pre = NoSession

GenerateParametersCall(parameter_id, fault) ==
    LET r == GenerateParameters(kind, Gen, parameter_id, fault)
        tr == <<[id |-> parameter_id, outcome |-> r.outcome, res |-> r.res]>>
    IN  /\ SetGen(r.g)
        /\ generated' = TRUE
        /\ Called("generate_parameters", <<parameter_id>>, FALSE, r.outcome,
                  IF r.outcome = "return" THEN <<r.res>> ELSE <<>>, tr, "")
        /\ UNCHANGED <<kind, _accept_customized, model, checkpoint, accept_arg>>

GenerateMultipleParametersCall(parameter_id_list, faultAt) ==
    LET r == GenerateMultipleParameters(kind, Gen, parameter_id_list, faultAt)
    IN  /\ SetGen(r.g)
        /\ generated' = TRUE
        /\ Called("generate_multiple_parameters", parameter_id_list,
                  FALSE, r.outcome, r.result, r.trace, "")
        /\ UNCHANGED <<kind, _accept_customized, model, checkpoint, accept_arg>>

ReceiveTrialResult(parameter_id, customized) ==
    /\ model < MaxModel
    /\ LET r == IF ~Delivered(_accept_customized, customized)
                THEN [outcome |-> "ignored", s |-> Session]
                ELSE IF kind = "base"
                THEN BaseReceiveTrialResult(Session, parameter_id)
                ELSE SubReceiveTrialResult(Session, parameter_id)
       IN  /\ SetSession(r.s)
           /\ Called("receive_trial_result", <<parameter_id>>, customized,
                     r.outcome, <<>>, <<>>, "")
    /\ UNCHANGED <<kind, checkpoint, accept_arg, generated>>

AcceptCustomizedTrials(arg) ==
    /\ SetSession(AcceptCustomized(Session, arg))
    /\ accept_arg' = arg
    /\ Called("accept_customized_trials", <<>>, AcceptValue(arg) = "True",
              "return", <<>>, <<>>, "")
    /\ UNCHANGED <<kind, checkpoint, generated>>

TrialEnd(parameter_id, success) ==
    /\ SetSession(TrialEndEffect(Session, parameter_id, success))
    /\ Called("trial_end", <<parameter_id>>, success, "return", <<>>, <<>>, "")
    /\ UNCHANGED <<kind, checkpoint, accept_arg, generated>>

UpdateSearchSpace(space) ==
    /\ LET r == IF kind = "base" THEN BaseUpdateSearchSpace(Session, space)
                ELSE SubUpdateSearchSpace(Session, space)
       IN  /\ SetSession(r.s)
           /\ Called("update_search_space", <<space>>, FALSE, r.outcome,
                     <<>>, <<>>, "")
    /\ UNCHANGED <<kind, checkpoint, accept_arg, generated>>

LoadCheckpoint(path) ==
    /\ SetSession(LoadCheckpointEffect(Session, checkpoint))
    /\ Called("load_checkpoint", <<>>, path = "raise", CheckpointOutcome(path),
              <<>>, <<>>, CheckpointLog(path, LoadMessage))
    /\ UNCHANGED <<kind, checkpoint, accept_arg, generated>>

SaveCheckpoint(path) ==
    /\ checkpoint' = SaveCheckpointData(Session, checkpoint)
    /\ Called("save_checkpoint", <<>>, path = "raise", CheckpointOutcome(path),
              <<>>, <<>>, CheckpointLog(path, SaveMessage))
    /\ UNCHANGED <<kind, _accept_customized, search_space, cursor, exhausted,
                   model, accept_arg, generated>>

ImportData(data) ==
    /\ SetSession(ImportDataEffect(Session, data))
    /\ Called("import_data", data, FALSE, "return", <<>>, <<>>, "")
    /\ UNCHANGED <<kind, checkpoint, accept_arg, generated>>

\* Crash recovery: save_checkpoint() on the running session, then a freshly
\* constructed instance of the same class and load_checkpoint() on it.
Restart ==
    /\ op # "restart"
    /\ checkpoint' = SaveCheckpointData(Session, checkpoint)
    /\ SetSession(LoadCheckpointEffect(FreshSession, checkpoint'))
    /\ accept_arg' = "never"
    /\ generated' = FALSE
    /\ op' = "restart"
    /\ ids' = <<>>
    /\ flag' = FALSE
    /\ outcome' = "return"
    /\ result' = <<>>
    /\ trace' = <<>>
    /\ log' = LoadMessage
    /\ pre' = Session
    /\ UNCHANGED kind

Next ==
    \/ \E id \in ParameterIds, fault \in BOOLEAN : GenerateParametersCall(id, fault)
    \/ \E l \in IdLists, faultAt \in 0 .. MaxLen :
          GenerateMultipleParametersCall(l, faultAt)
    \/ \E id \in ParameterIds, customized \in BOOLEAN :
          ReceiveTrialResult(id, customized)
    \/ \E arg \in AcceptArgs : AcceptCustomizedTrials(arg)
    \/ \E id \in ParameterIds, success \in BOOLEAN : TrialEnd(id, success)
    \/ \E space \in 0 .. MaxSpace : UpdateSearchSpace(space)
    \/ \E path \in CheckpointPathOutcomes : LoadCheckpoint(path)
    \/ \E path \in CheckpointPathOutcomes : SaveCheckpoint(path)
    \/ \E data \in DataLists : ImportData(data)
    \/ Restart

Spec == Init /\ [][Next]_vars

CheckpointOps == {"load_checkpoint", "save_checkpoint"}

\* The last call was the default generate_multiple_parameters.
DefaultBatch == op = "generate_multiple_parameters" /\ kind # "multi"

\* The positions of the last call's generate_parameters calls that ended
\* with exception e, and those that ended with any exception but e.
Raised(e) == {k \in DOMAIN trace : trace[k].outcome = e}
RaisedOther(e) == {k \in DOMAIN trace : trace[k].outcome \notin {"return", e}}
First(S) == CHOOSE k \in S : \A j \in S : k <= j

\* ------------------------------------------------------------------ claims
\* C1: when the k-th generate_parameters call of a default batch call is
\* the first to raise NoMoreTrialError, the batch call returns normally,
\* with exactly k-1 parameter sets, the i-th being the one
\* generate_parameters returned for the i-th id of the list.
C1_PartialBatch ==
    (DefaultBatch /\ Raised("NoMoreTrialError") # {}) =>
        LET k == First(Raised("NoMoreTrialError"))
        IN  /\ outcome = "return"
            /\ Len(result) = k - 1
            /\ k <= Len(ids)
            /\ \A i \in 1 .. (k - 1) :
                  /\ trace[i].id = ids[i]
                  /\ trace[i].outcome = "return"
                  /\ result[i] = trace[i].res

\* Ids 0, 1, 2 against a space of two values: two sets, then NoMoreTrials.
C1_Witness ==
    /\ DefaultBatch
    /\ kind = "single"
    /\ Len(ids) = 3
    /\ Len(trace) = 3
    /\ trace[3].outcome = "NoMoreTrialError"
    /\ result = <<Params(1), Params(2)>>

\* C2: the default batch call swallows only NoMoreTrialError: any other
\* exception of a generate_parameters call (NotImplementedError of the base
\* class included) leaves the batch call at once: it is the call's outcome,
\* it was the last generate_parameters call made, and no list is returned.
C2_OtherFaultsPropagate ==
    (DefaultBatch /\ RaisedOther("NoMoreTrialError") # {}) =>
        LET k == First(RaisedOther("NoMoreTrialError"))
        IN  /\ outcome = trace[k].outcome
            /\ outcome # "return"
            /\ Len(trace) = k
            /\ result = <<>>

\* An internal fault at the second of three ids, after one set was collected.
C2_Witness ==
    /\ DefaultBatch
    /\ kind = "single"
    /\ Len(ids) = 3
    /\ Len(trace) = 2
    /\ trace[1].outcome = "return"
    /\ trace[2].outcome = "InternalFault"
    /\ outcome = "InternalFault"

C4_Unimplemented ==
    [][ /\ (kind = "base" /\ op' \in {"generate_parameters", "update_search_space"}) =>
              /\ outcome' = "NotImplementedError"
              /\ Session' = Session
        /\ (kind = "base" /\ op' = "receive_trial_result" /\ outcome' # "ignored") =>
              /\ outcome' = "NotImplementedError"
              /\ Session' = Session
        /\ (kind = "multi" /\ op' = "generate_multiple_parameters") =>
              /\ outcome' # "NotImplementedError"
              /\ trace' = <<>>
        /\ (kind = "multi" /\ op' = "generate_parameters") =>
              /\ outcome' = "NotImplementedError"
              /\ Session' = Session
      ]_vars

\* The base tuner, constructed and configured with
\* accept_customized_trials(False), raised at a generate_parameters call.
C4_Witness ==
    /\ kind = "base"
    /\ op = "generate_parameters"
    /\ outcome = "NotImplementedError"
    /\ Session = [FreshSession EXCEPT !.accept = "False"]

\* C5 as claimed: while accept_customized_trials has not been called, the
\* flag is True.
C5_DefaultTrue == accept_arg = "never" => _accept_customized = "True"

\* C5 as amended: while accept_customized_trials has not been called, the
\* attribute _accept_customized does not exist (no constructor sets it).
C5_DefaultUnset == accept_arg = "never" => _accept_customized = Unset

\* The result of a customized trial arrived at a tuner whose flag was never
\* set, and was not handed to it.
C5_Witness ==
    /\ accept_arg = "never"
    /\ op = "receive_trial_result"
    /\ flag
    /\ outcome = "ignored"
    /\ generated

SingleOutput(k, g, parameter_id) ==
    LET r == GenerateParameters(k, g, parameter_id, FALSE)
    IN  <<r.outcome, r.res>>
BatchOutput(k, g, parameter_id_list) ==
    LET r == GenerateMultipleParameters(k, g, parameter_id_list, 0)
    IN  <<r.outcome, r.result>>
SameOutputs(k, g1, g2) ==
    /\ \A id \in ParameterIds : SingleOutput(k, g1, id) = SingleOutput(k, g2, id)
    /\ \A l \in IdLists : BatchOutput(k, g1, l) = BatchOutput(k, g2, l)
GenOf(s) == [space |-> s.space, cursor |-> s.cursor, exhausted |-> s.exhausted]

\* C7 as claimed: after save_checkpoint() and load_checkpoint() on a freshly
\* constructed instance, the new session answers the next generation
\* requests as the original session would have.
C7_RoundTrip == op = "restart" => SameOutputs(kind, Gen, GenOf(pre))

\* C7 as amended: the default save_checkpoint writes nothing and the default
\* load_checkpoint restores nothing, so the new session is in the freshly
\* constructed state whatever state the original was in, and answers
\* generation requests as a new session does.
C7_RestartFromScratch ==
    op = "restart" =>
        /\ Session = FreshSession
        /\ checkpoint = NoSession
        /\ SameOutputs(kind, Gen, GenOf(FreshSession))

\* The original had enumerated one of two values and taken in a result; the
\* restarted session answers differently.
C7_Witness ==
    /\ op = "restart"
    /\ kind = "single"
    /\ pre.space = 2
    /\ pre.cursor = 1
    /\ pre.model = 1
    /\ SingleOutput(kind, GenOf(pre), 0) = <<"return", Params(2)>>
    /\ SingleOutput(kind, Gen, 0) = <<"NoMoreTrialError", NoParams>>

\* C8: the default save_checkpoint and load_checkpoint leave the whole
\* session, and what the checkpoint location holds, unchanged in every state;
\* whenever get_checkpoint_path returns a location (or None) they return
\* normally, having logged that the checkpoint was ignored.
C8_CheckpointNoOp ==
    [][ (op' \in CheckpointOps) =>
          /\ Session' = Session
          /\ checkpoint' = checkpoint
          /\ ~flag' =>
                /\ outcome' = "return"
                /\ log' = IF op' = "load_checkpoint" THEN LoadMessage
                          ELSE SaveMessage
      ]_vars

\* load_checkpoint returned on a session that had enumerated, exhausted its
\* space, taken in a result and set its flag.
C8_Witness ==
    /\ op = "load_checkpoint"
    /\ outcome = "return"
    /\ log = LoadMessage
    /\ kind = "single"
    /\ exhausted
    /\ cursor = 2
    /\ model = 1
    /\ _accept_customized = "False"

\* C9 as claimed: when get_checkpoint_path raises inside save_checkpoint or
\* load_checkpoint, no error reaches the caller.
C9_FaultSwallowed == (op \in CheckpointOps /\ flag) => outcome = "return"

\* C9 as amended: when get_checkpoint_path raises inside save_checkpoint or
\* load_checkpoint, the exception reaches the caller (nothing catches it and
\* nothing is logged); the session is left unchanged.
C9_FaultPropagates ==
    [][ (op' \in CheckpointOps /\ flag') =>
          /\ outcome' = "CheckpointPathError"
          /\ log' = ""
          /\ Session' = Session
          /\ checkpoint' = checkpoint
      ]_vars

\* save_checkpoint failed on a session that had enumerated a value.
C9_Witness ==
    /\ op = "save_checkpoint"
    /\ flag
    /\ outcome = "CheckpointPathError"
    /\ kind = "single"
    /\ cursor = 1

\* C10: trial_end returns normally and leaves the session unchanged, for
\* every parameter id and either value of success, in every state, also
\* when no id was ever passed to a generation call and no result was ever
\* received.
C10_TrialEndNoOp ==
    [][ op' = "trial_end" =>
          /\ outcome' = "return"
          /\ Session' = Session
          /\ checkpoint' = checkpoint
      ]_vars

\* trial_end(2, False) on a session with a search space that never generated
\* a parameter set nor received a result.
C10_Witness ==
    /\ op = "trial_end"
    /\ ids = <<2>>
    /\ ~flag
    /\ ~generated
    /\ model = 0
    /\ search_space = 2
    /\ outcome = "return"

\* C11: import_data returns normally and leaves the session (model,
\* exhaustion state, flag) and the stored checkpoint unchanged, for every
\* sequence of records, the empty one included.
C11_ImportDataNoOp ==
    [][ op' = "import_data" =>
          /\ outcome' = "return"
          /\ Session' = Session
          /\ checkpoint' = checkpoint
      ]_vars

\* import_data of two records on an exhausted session that holds a result:
\* it stayed exhausted.
C11_Witness ==
    /\ op = "import_data"
    /\ ids = <<1, 2>>
    /\ outcome = "return"
    /\ kind = "single"
    /\ exhausted
    /\ cursor = 2
    /\ model = 1

\* C12: a default batch call calls generate_parameters for the ids in the
\* order of the list, once per position and one call after the other (each
\* call starts from the state the call before it left); every call but the
\* last one made returned, so nothing is attempted after the first
\* NoMoreTrialError.
C12_InOrderUntilExhausted ==
    DefaultBatch =>
        /\ Len(trace) <= Len(ids)
        /\ \A i \in DOMAIN trace :
              /\ trace[i].id = ids[i]
              /\ i < Len(trace) => trace[i].outcome = "return"
        /\ \A i \in DOMAIN trace :
              (kind = "single" /\ i > 1 /\ trace[i].outcome = "return") =>
                  trace[i].res = Params(trace[i - 1].res.x + 1)
        /\ Raised("NoMoreTrialError") # {} =>
              /\ Len(trace) = First(Raised("NoMoreTrialError"))
              /\ Cardinality(Raised("NoMoreTrialError")) = 1

\* Ids 2, 1, 0 against a space with one value left: 2 was served, 1 was
\* refused and 0 was never attempted.
C12_Witness ==
    /\ DefaultBatch
    /\ kind = "single"
    /\ ids = <<2, 1, 0>>
    /\ Len(trace) = 2
    /\ trace[1] = [id |-> 2, outcome |-> "return", res |-> Params(2)]
    /\ trace[2].id = 1
    /\ trace[2].outcome = "NoMoreTrialError"

\* The calls of the last operation's trace that returned a parameter set.
Returned == SelectSeq(trace, LAMBDA c : c.outcome = "return")

\* C13: when every generate_parameters call of a default batch call
\* returns, the result has one parameter set per id of the list, the i-th
\* being the one returned for the i-th id; for the empty list the result is
\* empty and generate_parameters is not called; the result is never longer
\* than the list.
C13_OnePerId ==
    DefaultBatch =>
        /\ Len(result) <= Len(ids)
        /\ ids = <<>> => (outcome = "return" /\ result = <<>> /\ trace = <<>>)
        /\ (\A i \in DOMAIN trace : trace[i].outcome = "return") =>
              /\ outcome = "return"
              /\ Len(result) = Len(ids)
              /\ \A i \in DOMAIN ids :
                    /\ trace[i].id = ids[i]
                    /\ result[i] = trace[i].res

\* Ids 1, 2 against a fresh space of two values: both served.
C13_Witness ==
    /\ DefaultBatch
    /\ kind = "single"
    /\ ids = <<1, 2>>
    /\ outcome = "return"
    /\ result = <<Params(1), Params(2)>>
    /\ ~exhausted

\* C14: accept_customized_trials sets the flag to its argument (True when
\* the argument is omitted), whatever the flag held and however often the
\* method was called before, returns, and changes nothing else of the
\* session.
C14_LastCallWins ==
    [][ op' = "accept_customized_trials" =>
          /\ accept_arg' = "False" => _accept_customized' = "False"
          /\ accept_arg' \in {"True", "omitted"} => _accept_customized' = "True"
          /\ outcome' = "return"
          /\ <<search_space, cursor, exhausted, model, checkpoint>>' =
                <<search_space, cursor, exhausted, model, checkpoint>>
      ]_vars

\* The flag is False after accept_customized_trials(False) on a tuner whose
\* model holds a result and whose space is half enumerated.
C14_Witness ==
    /\ op = "accept_customized_trials"
    /\ accept_arg = "False"
    /\ _accept_customized = "False"
    /\ kind = "single"
    /\ model = 1
    /\ cursor = 1

\* C15: the result of a default batch call holds only parameter sets that
\* generate_parameters returned during that call, in the order of the calls:
\* nothing of an earlier call's result is in it.
C15_ResultFromScratch ==
    DefaultBatch =>
        /\ Len(result) <= Len(Returned)
        /\ \A i \in DOMAIN result : result[i] = Returned[i].res

\* A batch call on a session that had already issued {x: 1} returned {x: 2}
\* alone.
C15_Witness ==
    /\ DefaultBatch
    /\ kind = "single"
    /\ search_space = 2
    /\ Len(ids) = 3
    /\ Len(trace) = 2
    /\ outcome = "return"
    /\ result = <<Params(2)>>

====
